---- MODULE Spec2Model ----
(***************************************************************************)
(* Model of the ingestion pipeline of answers/ingest_data.py: two runs of  *)
(* Ingestor.ingest_data against one base table of a PostgreSQL database.   *)
(* A run lists the data directory, parses and concatenates the files,      *)
(* drops duplicate keys, creates schema and table if absent, and merges    *)
(* the rows with INSERT ... ON CONFLICT DO NOTHING inside one transaction, *)
(* counting the table's rows before and after.                             *)
(***************************************************************************)
EXTENDS Integers, Sequences, FiniteSets, TLC

\* ------------------------------------------------------------------ bounds

\* Lines of text in the data directory, over all its files.
MaxLines == 2
\* Rows the base table may hold before the first run starts.
MaxPrior == 1
\* Weather readings the base table may hold when summaries are built.
MaxReadings == 3

\* ------------------------------------------------------------- the domains

WX_TABLE == "wx_data"
YLD_TABLE == "yld_data"

\* The two ingestion runs (processes running ingest_data).
Runs == {1, 2}

\* File names of the data directory, as <<stem, extension>>.
FileNames == {<<"USC1", "txt">>, <<"USC2", "txt">>}

\* Raw DATE column values (%Y%m%d integers) and raw YEAR column values.
RawDates == {19850101, 19850102}
RawYears == {1985, 1986}

\* The non-key columns of a line, taken together as one payload value.
Payloads == {10, 20}

\* The payloads of the rows stored before the first run.  The program never
\* inspects a payload, so which of the two values these rows carry does not
\* matter: the lines of the files take this value and the other.
StoredPayloads == {10}

\* ------------------------------------------------------------------ state

VARIABLES
    table,      \* Ingestor.table: the base table both runs ingest into
    dir,        \* the data directory: file name -> sequence of lines
    created,    \* catalog: schema and table exist (committed)
    base,       \* the committed rows of the base table
    pc,         \* each run's position in ingest_data
    file_list,  \* each run's directory listing (line 45)
    df,         \* each run's DataFrame after line 54
    ddl,        \* each run's uncommitted CREATE SCHEMA / CREATE TABLE
    tmp_table,  \* each run's staged rows (the TEMP table)
    next_row,   \* each run's position in the INSERT ... SELECT scan
    pending,    \* each run's inserted, uncommitted rows
    prev_count, \* line 95
    new_count,  \* line 120
    err,        \* why a run failed ("none" while it has not)
    prior,      \* history: the base table before the first run
    seen,       \* history: the base table as read by each run's first count
    merged,     \* history: the rows each run's COMMIT made visible
    foreign,    \* history: rows others committed between a run's two counts
    lost,       \* history: the uncommitted rows a failed run's rollback dropped
    avg_table,  \* the committed rows of the summary table (AVG_TABLE)
    src,        \* history: the base rows each summary row was computed from
    fresh,      \* history: generate_avg_table ran after the last merge
    where_lst,  \* the argument of the last generate_where_clause call
    where_clause, \* what that call returned, as the pieces it concatenates
    request,    \* the offset and limit of the last read
    payload     \* the count, offset and results of the last read

vars == <<table, dir, created, base, pc, file_list, df, ddl, tmp_table,
          next_row, pending, prev_count, new_count, err, prior, seen,
          merged, foreign, lost, avg_table, src, fresh, where_lst,
          where_clause, request, payload>>

\* The state of the reads.
reads == <<where_lst, where_clause, request, payload>>

\* The state outside the ingestion of the base table.
aux == <<avg_table, src, fresh, reads>>

\* No read has been served.
NoRequest ==
    /\ where_lst = <<>>
    /\ where_clause = <<>>
    /\ request = [served |-> FALSE, offset |-> <<>>, limit |-> <<>>]
    /\ payload = [count |-> 0, offset |-> 0, results |-> <<>>]

\* --------------------------------------------------- parsing and dedup

\* data_is_wx (line 40).
DataIsWx(t) == t = WX_TABLE

\* A variant of the keys in which FILE is a key column in both domains.
DedupKeysWithFile(t) == <<"FILE", "KEY">>

\* keys (lines 41-42): the columns drop_duplicates compares.
DedupKeys(t) == IF DataIsWx(t) THEN <<"FILE", "KEY">> ELSE <<"KEY">>

\* The values the key column of a line can take: DATE for weather, YEAR
\* for yield (WX_COLS[0], YLD_COLS[0]).
KeyValues(t) == IF DataIsWx(t) THEN RawDates ELSE RawYears

\* One parsed line: the key column and the payload columns.
Lines(t) == [KEY : KeyValues(t), VAL : Payloads]

\* Path(file).stem (line 65) and file.endswith('.txt') (line 45).
Stem(f) == f[1]
IsTxt(f) == f[2] = "txt"

\* ingest_data_helper: the file's lines, each tagged with FILE.
ingest_data_helper(d, f) ==
    [i \in 1..Len(d[f]) |-> [KEY |-> d[f][i].KEY, VAL |-> d[f][i].VAL,
                             FILE |-> Stem(f)]]

\* pd.concat over file_list, in list order (line 46).
RECURSIVE Concat(_, _)
Concat(d, files) ==
    IF files = <<>> THEN <<>>
    ELSE ingest_data_helper(d, Head(files)) \o Concat(d, Tail(files))

\* The projection of a record on the key columns.
KeyOf(r, keys) == [i \in 1..Len(keys) |-> r[keys[i]]]

\* A variant of drop_duplicates that keeps the last record of each key.
DropDuplicatesKeepLast(s, keys) ==
    LET F[i \in 0..Len(s)] ==
            IF i = 0 THEN <<>>
            ELSE LET r == s[Len(s) + 1 - i] IN
                 IF \E j \in (Len(s) + 2 - i)..Len(s) :
                        KeyOf(s[j], keys) = KeyOf(r, keys)
                 THEN F[i - 1] ELSE <<r>> \o F[i - 1]
    IN F[Len(s)]

\* df.drop_duplicates(keys) (line 47): pandas' default keep='first' keeps
\* the first record of each key, in sequence order.
DropDuplicates(s, keys) ==
    LET F[i \in 0..Len(s)] ==
            IF i = 0 THEN <<>>
            ELSE IF \E j \in 1..(i - 1) : KeyOf(s[j], keys) = KeyOf(s[i], keys)
                 THEN F[i - 1] ELSE Append(F[i - 1], s[i])
    IN F[Len(s)]

\* pd.to_datetime(str(d), format='%Y%m%d') (line 52): year, month, day.
ToDate(d) == <<d \div 10000, (d \div 100) % 100, d % 100>>

\* Lines 50-54: weather keeps FILE as STATION_ID and converts DATE; yield
\* drops FILE.
Finalize(t, r) ==
    IF DataIsWx(t)
    THEN [STATION_ID |-> r.FILE, DATE |-> ToDate(r.KEY), VAL |-> r.VAL]
    ELSE [YEAR |-> r.KEY, VAL |-> r.VAL]

\* Lines 46-54: the DataFrame handed to upload_to_db for a listing.
BuildFrame(t, d, files) ==
    LET s == DropDuplicates(Concat(d, files), DedupKeys(t))
    IN [i \in 1..Len(s) |-> Finalize(t, s[i])]

\* A variant of the schema in which the table has no PRIMARY KEY: only
\* identical rows conflict.
NoPrimaryKey(t, row) == row

\* The primary key of a base-table row (query_wx, query_yld).
PK(t, row) == IF DataIsWx(t) THEN <<row.STATION_ID, row.DATE>> ELSE <<row.YEAR>>

PKs(t, rows) == {PK(t, row) : row \in rows}

Range(s) == {s[i] : i \in 1..Len(s)}

\* The orders in which os.listdir may return the names of a set of files.
Listings(S) ==
    {s \in [1..Cardinality(S) -> S] : \A i, j \in 1..Cardinality(S) :
                                          i # j => s[i] # s[j]}

\* ------------------------------------------------------ the initial state

RECURSIVE TotalLines(_, _)
TotalLines(d, S) ==
    IF S = {} THEN 0
    ELSE LET f == CHOOSE x \in S : TRUE
         IN Len(d[f]) + TotalLines(d, S \ {f})

\* Non-empty files of up to n lines.
FileContents(t, n) == UNION {[1..k -> Lines(t)] : k \in 1..n}

\* The directories: any set of files, MaxLines lines in all.
Directories(t) ==
    {d \in UNION {[S -> FileContents(t, MaxLines)] : S \in SUBSET FileNames} :
        TotalLines(d, DOMAIN d) <= MaxLines}

\* The rows a base table can hold before the first run.
Rows(t) ==
    IF DataIsWx(t)
    THEN [STATION_ID : {Stem(f) : f \in FileNames},
          DATE : {ToDate(x) : x \in RawDates}, VAL : StoredPayloads]
    ELSE [YEAR : RawYears, VAL : StoredPayloads]

\* A table satisfies its PRIMARY KEY constraint.
UniqueKeys(t, rows) ==
    \A r1, r2 \in rows : PK(t, r1) = PK(t, r2) => r1 = r2

PriorTables(t) ==
    {T \in SUBSET Rows(t) : Cardinality(T) <= MaxPrior /\ UniqueKeys(t, T)}

Init ==
    /\ table \in {WX_TABLE, YLD_TABLE}
    /\ dir \in Directories(table)
    /\ base \in PriorTables(table)
    /\ created \in IF base = {} THEN BOOLEAN ELSE {TRUE}
    /\ prior = base
    /\ pc = [p \in Runs |-> "idle"]
    /\ file_list = [p \in Runs |-> <<>>]
    /\ df = [p \in Runs |-> <<>>]
    /\ ddl = [p \in Runs |-> FALSE]
    /\ tmp_table = [p \in Runs |-> <<>>]
    /\ next_row = [p \in Runs |-> 1]
    /\ pending = [p \in Runs |-> {}]
    /\ prev_count = [p \in Runs |-> 0]
    /\ new_count = [p \in Runs |-> 0]
    /\ err = [p \in Runs |-> "none"]
    /\ seen = [p \in Runs |-> {}]
    /\ merged = [p \in Runs |-> {}]
    /\ foreign = [p \in Runs |-> {}]
    /\ lost = [p \in Runs |-> {}]
    /\ avg_table = {}
    /\ src = {}
    /\ fresh = FALSE
    /\ NoRequest

\* ---------------------------------------------------------------- failure

\* A variant of the rollback that leaves the transaction's rows in the
\* table, as with a session in autocommit mode.
RollbackKeepsWrites(t, rows, writes) == rows \cup writes

\* The table after a transaction is rolled back: its writes are discarded.
Rollback(t, rows, writes) == rows

\* A run that raised: the exception leaves ingest_data, the session is
\* closed without COMMIT, and the run's local values are gone.
Raise(p, why) ==
    /\ pc' = [pc EXCEPT ![p] = "failed"]
    /\ err' = [err EXCEPT ![p] = why]
    /\ base' = Rollback(table, base, pending[p])
    /\ file_list' = [file_list EXCEPT ![p] = <<>>]
    /\ df' = [df EXCEPT ![p] = <<>>]
    /\ ddl' = [ddl EXCEPT ![p] = FALSE]
    /\ tmp_table' = [tmp_table EXCEPT ![p] = <<>>]
    /\ next_row' = [next_row EXCEPT ![p] = 1]
    /\ pending' = [pending EXCEPT ![p] = {}]
    /\ prev_count' = [prev_count EXCEPT ![p] = 0]
    /\ seen' = [seen EXCEPT ![p] = {}]
    /\ foreign' = [foreign EXCEPT ![p] = {}]
    /\ lost' = [lost EXCEPT ![p] = pending[p]]
    /\ UNCHANGED <<table, dir, created, new_count, prior, aux, merged>>

\* ------------------------------------------------------------ ingest_data

\* Lines 39-54: list the directory in whatever order the file system
\* returns, keep the .txt files, parse, concatenate, drop duplicates.
Start(p) ==
    /\ pc[p] = "idle"
    /\ \E listing \in Listings(DOMAIN dir) :
        /\ SelectSeq(listing, IsTxt) # <<>>
        /\ file_list' = [file_list EXCEPT ![p] = SelectSeq(listing, IsTxt)]
        /\ df' = [df EXCEPT ![p] =
                     BuildFrame(table, dir, SelectSeq(listing, IsTxt))]
    /\ pc' = [pc EXCEPT ![p] = "create"]
    /\ UNCHANGED <<table, dir, created, base, ddl, tmp_table, next_row,
                   pending, prev_count, new_count, err, prior, aux, lost, seen, merged,
                   foreign>>

\* Line 46 with no .txt file in the directory: pd.concat of an empty list
\* raises ValueError, before create_table.
StartNoFiles(p) ==
    /\ pc[p] = "idle"
    /\ \A f \in DOMAIN dir : ~IsTxt(f)
    /\ Raise(p, "no_files")

\* ----------------------------------------------------------- create_table

\* Lines 76-80: CREATE SCHEMA / CREATE TABLE IF NOT EXISTS, uncommitted.
\* Schema and table are created and committed together, so one flag stands
\* for both.  The existence test reads the committed catalog: a run that
\* finds nothing while another run's creation is uncommitted goes on to
\* create the object itself and waits on that run's catalog entry.
ExecCreate(p) ==
    /\ pc[p] = "create"
    /\ IF created
       THEN /\ pc' = [pc EXCEPT ![p] = "commit_create"]
            /\ ddl' = ddl
       ELSE IF \E q \in Runs \ {p} : ddl[q]
       THEN /\ pc' = [pc EXCEPT ![p] = "ddl_wait"]
            /\ ddl' = ddl
       ELSE /\ pc' = [pc EXCEPT ![p] = "commit_create"]
            /\ ddl' = [ddl EXCEPT ![p] = TRUE]
    /\ UNCHANGED <<table, dir, created, base, file_list, df, tmp_table,
                   next_row, pending, prev_count, new_count, err, prior, aux, lost,
                   seen, merged, foreign>>

\* The waiting CREATE resumes when the other run's transaction has rolled
\* back: this run creates the object.
DdlResume(p) ==
    /\ pc[p] = "ddl_wait"
    /\ \A q \in Runs \ {p} : ~ddl[q]
    /\ ~created
    /\ pc' = [pc EXCEPT ![p] = "commit_create"]
    /\ ddl' = [ddl EXCEPT ![p] = TRUE]
    /\ UNCHANGED <<table, dir, created, base, file_list, df, tmp_table,
                   next_row, pending, prev_count, new_count, err, prior, aux, lost,
                   seen, merged, foreign>>

\* The waiting CREATE resumes when the other run's transaction has
\* committed: the catalog's unique index rejects the second entry and
\* cur.execute raises.
DdlDuplicate(p) ==
    /\ pc[p] = "ddl_wait"
    /\ \A q \in Runs \ {p} : ~ddl[q]
    /\ created
    /\ Raise(p, "duplicate_object")

\* Line 81: session.commit().
CommitCreate(p) ==
    /\ pc[p] = "commit_create"
    /\ created' = (created \/ ddl[p])
    /\ ddl' = [ddl EXCEPT ![p] = FALSE]
    /\ pc' = [pc EXCEPT ![p] = "count1"]
    /\ UNCHANGED <<table, dir, base, file_list, df, tmp_table, next_row,
                   pending, prev_count, new_count, err, prior, aux, lost, seen, merged,
                   foreign>>

\* The connection is lost inside create_table: nothing is committed.
FailCreate(p) ==
    /\ pc[p] \in {"create", "ddl_wait", "commit_create"}
    /\ Raise(p, "connection_create")

\* ----------------------------------------------------------- upload_to_db

\* SELECT COUNT(*): the committed rows (READ COMMITTED, one snapshot per
\* statement).
CountRows(rows) == Cardinality(rows)

\* Lines 94-95.
CountPrev(p) ==
    /\ pc[p] = "count1"
    /\ prev_count' = [prev_count EXCEPT ![p] = CountRows(base)]
    /\ seen' = [seen EXCEPT ![p] = base]
    /\ pc' = [pc EXCEPT ![p] = "stage"]
    /\ UNCHANGED <<table, dir, created, base, file_list, df, ddl, tmp_table,
                   next_row, pending, new_count, err, prior, aux, lost, merged, foreign>>

\* What read_csv (line 64) puts in the columns of names that a line has no
\* field for.
NaN == 0

\* A column read with a NaN in it is a float column, also after
\* drop_duplicates; to_csv (line 99) writes its values as 10.0 and its NaN
\* as the empty field. COPY (line 108) takes the empty field as NULL and
\* rejects 10.0 for an int4 column.
InvalidInteger(p) ==
    /\ \E i \in 1..Len(Concat(dir, file_list[p])) :
          Concat(dir, file_list[p])[i].VAL = NaN
    /\ \E i \in 1..Len(df[p]) : df[p][i].VAL # NaN

\* Lines 98-108: df.to_csv, then BEGIN, CREATE TEMP TABLE and COPY: the
\* rows of df, in order, columns matched by name.
Stage(p) ==
    /\ pc[p] = "stage"
    /\ ~InvalidInteger(p)
    /\ tmp_table' = [tmp_table EXCEPT ![p] = df[p]]
    /\ next_row' = [next_row EXCEPT ![p] = 1]
    /\ pc' = [pc EXCEPT ![p] = "insert"]
    /\ UNCHANGED <<table, dir, created, base, file_list, df, ddl, pending,
                   prev_count, new_count, err, prior, aux, lost, seen, merged, foreign>>

\* A variant of the merge with ON CONFLICT DO UPDATE: the staged row
\* replaces the stored one.
InsertOrUpdate(t, visible, own, row) ==
    {r \in own : PK(t, r) # PK(t, row)} \cup {row}

\* A variant of the merge that skips every row once the table is not empty.
InsertIfEmpty(t, visible, own, row) ==
    IF visible # {} THEN own ELSE own \cup {row}

\* Lines 110-113, for one staged row: ON CONFLICT DO NOTHING skips a row
\* whose key is in the table (committed, or inserted earlier by this
\* statement) and inserts any other.  The result is the transaction's set
\* of uncommitted rows.
InsertOnConflictDoNothing(t, visible, own, row) ==
    IF PK(t, row) \in PKs(t, visible \cup own) THEN own ELSE own \cup {row}

\* The row the INSERT ... SELECT scan of run p is at.
CurrentRow(p) == tmp_table[p][next_row[p]]

Scanning(p) == pc[p] = "insert" /\ next_row[p] <= Len(tmp_table[p])

\* Run p's INSERT waits for run q: the key of its current row is not
\* committed but is held by an uncommitted row of q's transaction.
WaitsFor(p, q) ==
    /\ Scanning(p)
    /\ PK(table, CurrentRow(p)) \notin PKs(table, base)
    /\ PK(table, CurrentRow(p)) \in PKs(table, pending[q])

InsertRow(p) ==
    /\ Scanning(p)
    /\ \A q \in Runs \ {p} : ~WaitsFor(p, q)
    /\ pending' = [pending EXCEPT ![p] =
                      InsertOnConflictDoNothing(table, base, @, CurrentRow(p))]
    /\ next_row' = [next_row EXCEPT ![p] = @ + 1]
    /\ UNCHANGED <<table, dir, created, base, pc, file_list, df, ddl,
                   tmp_table, prev_count, new_count, err, prior, aux, lost, seen,
                   merged, foreign>>

\* Two INSERTs wait for each other: the engine's deadlock detector aborts
\* one of them, whose copy_expert raises; its transaction is rolled back.
Deadlock(p) ==
    /\ \E q \in Runs \ {p} : WaitsFor(p, q) /\ WaitsFor(q, p)
    /\ Raise(p, "deadlock")

\* A variant of the commit that drops the stored rows.
ReplaceRows(t, rows, writes) == writes

\* The table after a transaction's writes are committed.
ApplyWrites(t, rows, writes) ==
    {r \in rows : PK(t, r) \notin PKs(t, writes)} \cup writes

\* The run has counted and not yet counted again.
BetweenCounts(q) == pc[q] \in {"stage", "insert", "count2"}

\* Line 114: COMMIT, once the INSERT has scanned every staged row.  All the
\* transaction's rows become visible together; the TEMP table is dropped.
Commit(p) ==
    /\ pc[p] = "insert"
    /\ next_row[p] > Len(tmp_table[p])
    /\ base' = ApplyWrites(table, base, pending[p])
    /\ merged' = [merged EXCEPT ![p] = pending[p]]
    /\ foreign' = [q \in Runs |->
                      IF q # p /\ BetweenCounts(q)
                      THEN foreign[q] \cup pending[p] ELSE foreign[q]]
    /\ pending' = [pending EXCEPT ![p] = {}]
    /\ tmp_table' = [tmp_table EXCEPT ![p] = <<>>]
    /\ next_row' = [next_row EXCEPT ![p] = 1]
    /\ pc' = [pc EXCEPT ![p] = "count2"]
    /\ UNCHANGED <<table, dir, created, file_list, df, ddl, prev_count,
                   new_count, err, prior, aux, lost, seen>>

\* The connection is lost, or a statement fails, before COMMIT: the
\* transaction's rows are never committed.
FailMerge(p) ==
    /\ pc[p] \in {"count1", "stage", "insert"}
    /\ Raise(p, "connection_merge")

\* Lines 119-121: the second count; 'Rows added' is new_count - prev_count.
CountNew(p) ==
    /\ pc[p] = "count2"
    /\ new_count' = [new_count EXCEPT ![p] = CountRows(base)]
    /\ pc' = [pc EXCEPT ![p] = "done"]
    /\ UNCHANGED <<table, dir, created, base, file_list, df, ddl, tmp_table,
                   next_row, pending, prev_count, err, prior, aux, lost, seen, merged,
                   foreign>>

\* The value logged at line 121.
RowsAdded(p) == new_count[p] - prev_count[p]

\* The connection is lost after COMMIT, before the second count.
FailCount(p) ==
    /\ pc[p] = "count2"
    /\ Raise(p, "connection_count")

Next ==
    \E p \in Runs :
        \/ Start(p)
        \/ StartNoFiles(p)
        \/ ExecCreate(p)
        \/ DdlResume(p)
        \/ DdlDuplicate(p)
        \/ CommitCreate(p)
        \/ FailCreate(p)
        \/ CountPrev(p)
        \/ Stage(p)
        \/ InsertRow(p)
        \/ Deadlock(p)
        \/ Commit(p)
        \/ FailMerge(p)
        \/ CountNew(p)
        \/ FailCount(p)

Spec == Init /\ [][Next]_vars

\* The parsing half of ingest_data alone (lines 39-54): the runs list the
\* directory and build their DataFrames.
NextParse == \E p \in Runs : Start(p) \/ StartNoFiles(p)

SpecParse == Init /\ [][NextParse]_vars

\* ------------------------------------------------------------ short lines

\* Line 116 when COPY rejects a value: the statement fails inside the
\* transaction and the exception leaves upload_to_db.
CopyFails(p) ==
    /\ pc[p] = "stage"
    /\ InvalidInteger(p)
    /\ Raise(p, "invalid_integer")

\* The lines of a file, among them lines that end before the last column.
RaggedLines(t) == Lines(t) \cup [KEY : KeyValues(t), VAL : {NaN}]

\* The directories with a short line: any set of files, MaxLines lines in
\* all.
RaggedDirectories(t) ==
    {d \in UNION {[S -> UNION {[1..k -> RaggedLines(t)] : k \in 1..MaxLines}] :
                    S \in SUBSET FileNames} :
        /\ TotalLines(d, DOMAIN d) <= MaxLines
        /\ \E f \in DOMAIN d : \E i \in 1..Len(d[f]) : d[f][i].VAL = NaN}

\* One run on an empty table, over a directory with a short line.
InitRagged ==
    /\ table \in {WX_TABLE, YLD_TABLE}
    /\ dir \in RaggedDirectories(table)
    /\ base = {}
    /\ created \in BOOLEAN
    /\ prior = base
    /\ pc = [p \in Runs |-> "idle"]
    /\ file_list = [p \in Runs |-> <<>>]
    /\ df = [p \in Runs |-> <<>>]
    /\ ddl = [p \in Runs |-> FALSE]
    /\ tmp_table = [p \in Runs |-> <<>>]
    /\ next_row = [p \in Runs |-> 1]
    /\ pending = [p \in Runs |-> {}]
    /\ prev_count = [p \in Runs |-> 0]
    /\ new_count = [p \in Runs |-> 0]
    /\ err = [p \in Runs |-> "none"]
    /\ seen = [p \in Runs |-> {}]
    /\ merged = [p \in Runs |-> {}]
    /\ foreign = [p \in Runs |-> {}]
    /\ lost = [p \in Runs |-> {}]
    /\ avg_table = {}
    /\ src = {}
    /\ fresh = FALSE
    /\ NoRequest

\* The steps of a single run whose connection holds.
NextRagged ==
    \E p \in {1} :
        \/ Start(p)
        \/ ExecCreate(p)
        \/ CommitCreate(p)
        \/ CountPrev(p)
        \/ Stage(p)
        \/ CopyFails(p)
        \/ InsertRow(p)
        \/ Commit(p)
        \/ CountNew(p)

SpecRagged == InitRagged /\ [][NextRagged]_vars

\* ----------------------------------------------------- generate_avg_table

AVG_TABLE == "avg_table"

\* The value that stands for a missing measurement (lines 151-153).
SENTINEL == -9999

\* The divisors of lines 151-152 and of line 153.
TempDivisor == 10
PrcpDivisor == 100

\* Station and raw date of the weather readings summarised.
ReadingKeys ==
    {<<"USC1", 19850101>>, <<"USC1", 19850102>>, <<"USC1", 19850103>>,
     <<"USC1", 19860101>>, <<"USC2", 19850101>>}

\* The three measurement columns of a reading (maximum temperature, minimum
\* temperature, precipitation), in tenths.
Measurements ==
    {<<SENTINEL, SENTINEL, SENTINEL>>, <<SENTINEL, 10, 150>>,
     <<30, 20, 150>>, <<-15, 40, 50>>}

\* The rows of the weather table with its three measurement columns.
Readings ==
    {[STATION_ID |-> k[1], DATE |-> ToDate(k[2]), MAX_TEMP |-> m[1],
      MIN_TEMP |-> m[2], PRCP |-> m[3]] :
        k \in ReadingKeys, m \in Measurements}

\* SQL NULL, and a value that is not NULL.
Null == <<>>
Some(v) == <<v>>

\* EXTRACT(YEAR FROM DATE) (line 150).
YearOf(date) == date[1]

\* GROUP BY STATION_ID, EXTRACT(YEAR FROM DATE) (lines 156-158).
GroupKey(row) == <<row.STATION_ID, YearOf(row.DATE)>>
Groups(rows) == {GroupKey(r) : r \in rows}
GroupRows(rows, g) == {r \in rows : GroupKey(r) = g}

\* A variant of the filter that drops a row when any of its measurements
\* is the sentinel.
FilterWholeRow(rows, col) ==
    {r \in rows : r.MAX_TEMP # SENTINEL /\ r.MIN_TEMP # SENTINEL
                    /\ r.PRCP # SENTINEL}

\* FILTER (WHERE col <> -9999) (lines 151-153).
Filter(rows, col) == {r \in rows : r[col] # SENTINEL}

\* The sum of a column over a set of rows.
RECURSIVE SumOf(_, _)
SumOf(rows, col) ==
    IF rows = {} THEN 0
    ELSE LET r == CHOOSE x \in rows : TRUE
         IN r[col] + SumOf(rows \ {r}, col)

\* The nearest integer to num / den (den > 0), halves away from zero: the
\* cast of a numeric to an int4 column.
RoundDiv(num, den) ==
    IF num >= 0 THEN (2 * num + den) \div (2 * den)
    ELSE -((2 * (-num) + den) \div (2 * den))

\* num / den (den > 0) on integers: truncated toward zero.
TruncDiv(num, den) ==
    IF num >= 0 THEN num \div den ELSE -((-num) \div den)

\* A variant of the average that counts the filtered-out rows as zeros.
AvgZeroForMissing(rows, col) ==
    Some(RoundDiv(SumOf(Filter(rows, col), col),
                  Cardinality(rows) * TempDivisor))

\* AVG(col) FILTER (WHERE col <> -9999) / 10, as stored in an int4 column
\* (lines 135-136, 151-152): NULL when the filter leaves no row.
AvgTenth(rows, col) ==
    IF Filter(rows, col) = {} THEN Null
    ELSE Some(RoundDiv(SumOf(Filter(rows, col), col),
                       Cardinality(Filter(rows, col)) * TempDivisor))

\* SUM(col) FILTER (WHERE col <> -9999) / 100 (line 153): the sum of int4 is
\* a bigint and bigint / integer is integer division; NULL when the filter
\* leaves no row.
SumHundredth(rows, col) ==
    IF Filter(rows, col) = {} THEN Null
    ELSE Some(TruncDiv(SumOf(Filter(rows, col), col), PrcpDivisor))

\* Lines 148-158: the summary row of one group.
SummaryRow(rows, g) ==
    [STATION_ID |-> g[1], YEAR |-> g[2],
     AVG_MAX_TEMP |-> AvgTenth(GroupRows(rows, g), "MAX_TEMP"),
     AVG_MIN_TEMP |-> AvgTenth(GroupRows(rows, g), "MIN_TEMP"),
     TOTAL_PRECIPITATION |-> SumHundredth(GroupRows(rows, g), "PRCP")]

\* PRIMARY KEY(STATION_ID, YEAR) (line 138).
AvgPK(row) == <<row.STATION_ID, row.YEAR>>

\* A variant of the insert with ON CONFLICT DO UPDATE: a recomputed summary
\* replaces the stored one.
InsertOrReplaceSummaries(stored, computed) ==
    {a \in stored : \A c \in computed : AvgPK(c) # AvgPK(a)} \cup computed

\* A variant of the insert that writes nothing once the table holds rows.
InsertSummariesIfEmpty(stored, computed) ==
    IF stored = {} THEN computed ELSE stored

\* INSERT INTO avg_table ... ON CONFLICT DO NOTHING (lines 147-159): the
\* computed rows whose key is not stored are added.
InsertSummaries(stored, computed) ==
    stored \cup {c \in computed : \A a \in stored : AvgPK(a) # AvgPK(c)}

\* generate_avg_table (lines 125-165), called on the weather Ingestor.
GenerateAvg ==
    /\ table = WX_TABLE
    /\ avg_table' =
          InsertSummaries(avg_table,
                          {SummaryRow(base, g) : g \in Groups(base)})
    /\ src' = src \cup
          {[key |-> g, rows |-> GroupRows(base, g)] :
              g \in {h \in Groups(base) :
                        \A a \in avg_table : AvgPK(a) # h}}
    /\ fresh' = TRUE
    /\ UNCHANGED <<table, dir, created, base, pc, file_list, df, ddl,
                   tmp_table, next_row, pending, prev_count, new_count, err,
                   prior, seen, merged, foreign, lost, reads>>

\* A complete ingest_data run of the weather Ingestor over a directory whose
\* file holds the one reading: the merge of lines 110-114.
IngestReading(row) ==
    /\ table = WX_TABLE
    /\ base' = ApplyWrites(table, base,
                   InsertOnConflictDoNothing(table, base, {}, row))
    /\ Cardinality(base') <= MaxReadings
    /\ fresh' = FALSE
    /\ UNCHANGED <<table, dir, created, pc, file_list, df, ddl, tmp_table,
                   next_row, pending, prev_count, new_count, err, prior,
                   seen, merged, foreign, lost, avg_table, src, reads>>

\* __main__ (lines 192-208): the weather table exists and is empty; the
\* data directory plays no part.
InitEmpty ==
    /\ table = WX_TABLE
    /\ dir = <<>>
    /\ base = {}
    /\ created = TRUE
    /\ prior = {}
    /\ pc = [p \in Runs |-> "idle"]
    /\ file_list = [p \in Runs |-> <<>>]
    /\ df = [p \in Runs |-> <<>>]
    /\ ddl = [p \in Runs |-> FALSE]
    /\ tmp_table = [p \in Runs |-> <<>>]
    /\ next_row = [p \in Runs |-> 1]
    /\ pending = [p \in Runs |-> {}]
    /\ prev_count = [p \in Runs |-> 0]
    /\ new_count = [p \in Runs |-> 0]
    /\ err = [p \in Runs |-> "none"]
    /\ seen = [p \in Runs |-> {}]
    /\ merged = [p \in Runs |-> {}]
    /\ foreign = [p \in Runs |-> {}]
    /\ lost = [p \in Runs |-> {}]
    /\ avg_table = {}
    /\ src = {}
    /\ fresh = FALSE
    /\ NoRequest

NextAvg ==
    \/ \E row \in Readings : IngestReading(row)
    \/ GenerateAvg

SpecAvg == InitEmpty /\ [][NextAvg]_vars

\* -------------------------------------------------- generate_where_clause

\* Predicates a where_lst may hold beyond those of a route.
MaxPredicates == 4

\* Python's None, and a str.
None == <<>>
Str(s) == <<s>>

\* The (column, value) pairs of a where_lst.
Predicates ==
    ({"date"} \X {None, Str("1985-01-01")})
        \cup ({"station_id"} \X {None, Str("USC1")})

\* The lists generate_where_clause is called with.
WhereLists == UNION {[1..n -> Predicates] : n \in 0..MaxPredicates}

\* x[1] is not None (line 18).
HasValue(x) == x[2] # None

\* {value} in an f-string (lines 23, 26).
Format(v) == IF v = None THEN "None" ELSE v[1]

\* A variant that keeps the predicates whose value is None.
generate_where_clause_unfiltered(lst) ==
    IF Len(lst) = 0 THEN <<>>
    ELSE IF Len(lst) = 1
         THEN <<" WHERE ", lst[1][1], " = '", Format(lst[1][2]), "'">>
         ELSE <<" WHERE ", lst[1][1], " = '", Format(lst[1][2]), "'",
                " AND ", lst[2][1], " = '", Format(lst[2][2]), "'">>

\* generate_where_clause (lines 17-26); the returned str as the sequence of
\* the pieces the f-strings join.
generate_where_clause(lst) ==
    LET kept == SelectSeq(lst, HasValue)
        str_temp ==
            <<" WHERE ", kept[1][1], " = '", Format(kept[1][2]), "'">>
    IN IF Len(kept) = 0 THEN <<>>
       ELSE IF Len(kept) = 1 THEN str_temp
       ELSE str_temp
               \o <<" AND ", kept[2][1], " = '", Format(kept[2][2]), "'">>

\* One call of generate_where_clause.
BuildClause(lst) ==
    /\ where_lst' = lst
    /\ where_clause' = generate_where_clause(lst)
    /\ UNCHANGED <<table, dir, created, base, pc, file_list, df, ddl,
                   tmp_table, next_row, pending, prev_count, new_count, err,
                   prior, seen, merged, foreign, lost, avg_table, src, fresh,
                   request, payload>>

NextWhere == \E lst \in WhereLists : BuildClause(lst)

SpecWhere == InitEmpty /\ [][NextWhere]_vars

\* ------------------------------------------------------------- get_data

WX_SCHEMA == "wx_schema"

\* The largest offset and limit a read asks for.
MaxOffset == 2
MaxLimit == 2

\* The page a read gets when it names no offset and no limit.
DefaultOffset == 0
DefaultLimit == 10

\* The rows of the weather table as a read sees them: the text of the two
\* columns a read filters on.
QueryRows ==
    {[date |-> "1985-01-01", station_id |-> "USC1"],
     [date |-> "1985-01-02", station_id |-> "USC1"],
     [date |-> "1985-01-01", station_id |-> "USC2"]}

\* The orders in which the engine may scan a set of rows.
Orderings(S) ==
    {f \in [1..Cardinality(S) -> S] :
        \A i, j \in 1..Cardinality(S) : i # j => f[i] # f[j]}

\* Lines 30-35: the query text, as the sequence of the pieces joined.
Query(schema, t, clause, pagination_clause, count) ==
    <<"SELECT ", IF count THEN "COUNT(*)" ELSE "*", " FROM ", schema, ".", t>>
        \o clause \o pagination_clause \o <<";">>

\* Lines 36-37: cur.execute(query) and cur.fetchall() on rows scanned in the
\* order scan. The WHERE conditions select, COUNT(*) reduces the selection to
\* one row, and LIMIT and OFFSET cut the result.
Execute(query, scan) ==
    LET body == SubSeq(query, 7, Len(query) - 1)
        hasWhere == Len(body) > 0 /\ body[1] = " WHERE "
        rest == IF hasWhere THEN SubSeq(body, 6, Len(body)) ELSE body
        hasAnd == hasWhere /\ Len(rest) > 0 /\ rest[1] = " AND "
        tail == IF hasAnd THEN SubSeq(rest, 6, Len(rest)) ELSE rest
        conds == (IF hasWhere THEN {<<body[2], body[4]>>} ELSE {})
                    \cup (IF hasAnd THEN {<<rest[2], rest[4]>>} ELSE {})
        Selected(r) == \A c \in conds : r[c[1]] = c[2]
        matching == SelectSeq(scan, Selected)
        result == IF query[2] = "COUNT(*)"
                  THEN <<[count |-> Len(matching)]>>
                  ELSE matching
        limit == IF Len(tail) = 0 THEN Len(result) ELSE tail[2]
        offset == IF Len(tail) = 0 THEN 0 ELSE tail[4]
        last == IF offset + limit < Len(result) THEN offset + limit
                ELSE Len(result)
    IN SubSeq(result, offset + 1, last)

\* A variant of get_data that leaves the where clause out of the query.
get_data_unfiltered(schema, t, clause, pagination_clause, count, scan) ==
    Execute(Query(schema, t, <<>>, pagination_clause, count), scan)

\* get_data (lines 29-41).
get_data(schema, t, clause, pagination_clause, count, scan) ==
    Execute(Query(schema, t, clause, pagination_clause, count), scan)

\* The pagination clause of a read.
Pagination(offset, limit) == <<" LIMIT ", limit, " OFFSET ", offset>>

\* The offsets and limits a read may name; None when it names none.
Offsets == {None} \cup {<<n>> : n \in 0..MaxOffset}
Limits == {None} \cup {<<n>> : n \in 0..MaxLimit}

\* The values a read may filter a column on; None for no filter.
DateFilters == {None, Str("1985-01-01"), Str("1985-01-03")}
StationFilters == {None, Str("USC1")}

\* One read of the weather table: the count of the rows matching the
\* filter, and the page of them at the offset.
Read(date, station, off, lim, scan) ==
    /\ table = WX_TABLE
    /\ LET lst == <<<<"date", date>>, <<"station_id", station>>>>
           clause == generate_where_clause(lst)
           offset == IF off = None THEN DefaultOffset ELSE off[1]
           limit == IF lim = None THEN DefaultLimit ELSE lim[1]
           counted == get_data(WX_SCHEMA, table, clause, <<>>, TRUE, scan)
           results == get_data(WX_SCHEMA, table, clause,
                               Pagination(offset, limit), FALSE, scan)
       IN /\ where_lst' = lst
          /\ where_clause' = clause
          /\ request' = [served |-> TRUE, offset |-> off, limit |-> lim]
          /\ payload' = [count |-> counted[1].count, offset |-> offset,
                         results |-> results]
    /\ UNCHANGED <<table, dir, created, base, pc, file_list, df, ddl,
                   tmp_table, next_row, pending, prev_count, new_count, err,
                   prior, seen, merged, foreign, lost, avg_table, src, fresh>>

\* The weather table holds any of the rows; nothing runs but reads.
InitQuery ==
    /\ table = WX_TABLE
    /\ dir = <<>>
    /\ base \in SUBSET QueryRows
    /\ created = TRUE
    /\ prior = base
    /\ pc = [p \in Runs |-> "idle"]
    /\ file_list = [p \in Runs |-> <<>>]
    /\ df = [p \in Runs |-> <<>>]
    /\ ddl = [p \in Runs |-> FALSE]
    /\ tmp_table = [p \in Runs |-> <<>>]
    /\ next_row = [p \in Runs |-> 1]
    /\ pending = [p \in Runs |-> {}]
    /\ prev_count = [p \in Runs |-> 0]
    /\ new_count = [p \in Runs |-> 0]
    /\ err = [p \in Runs |-> "none"]
    /\ seen = [p \in Runs |-> {}]
    /\ merged = [p \in Runs |-> {}]
    /\ foreign = [p \in Runs |-> {}]
    /\ lost = [p \in Runs |-> {}]
    /\ avg_table = {}
    /\ src = {}
    /\ fresh = FALSE
    /\ NoRequest

NextQuery ==
    \E date \in DateFilters, station \in StationFilters, off \in Offsets,
       lim \in Limits, scan \in Orderings(base) :
        Read(date, station, off, lim, scan)

SpecQuery == InitQuery /\ [][NextQuery]_vars

\* ------------------------------------------------------------- properties

\* The run's merge has been committed.
Committed(p) == pc[p] \in {"count2", "done"} \/ err[p] = "connection_count"

\* The run holds a DataFrame (it is past line 54 and has not raised).
HasFrame(p) == pc[p] \notin {"idle", "failed"}

\* The natural key of a stored row, as the data model defines it:
\* (station, date) for weather, (year) for yield.
NaturalKey(row) ==
    IF table = WX_TABLE THEN <<row.STATION_ID, row.DATE>> ELSE <<row.YEAR>>

\* The natural key of a parsed record of the concatenation.
RecordKey(r) == IF table = WX_TABLE THEN <<r.FILE, r.KEY>> ELSE <<r.KEY>>

\* C1: Idempotence.  Every run reads the same file set, so once one run's
\* merge is committed, no later step (of a second run, started after it or
\* overlapping it) changes the base table's row count.
C1_Idempotence ==
    [][(\E p \in Runs : Committed(p))
          => Cardinality(base') = Cardinality(base)]_vars

\* C1 witness: both runs succeeded one after the other on a non-empty table:
\* the first added rows, the second counted the same rows before and after.
C1_Witness ==
    \E p, q \in Runs :
        /\ p # q /\ pc[p] = "done" /\ pc[q] = "done"
        /\ prior # {} /\ merged[p] # {}
        /\ seen[q] = base /\ new_count[q] = new_count[p]

\* Run p's DataFrame holds a record with stored row r's key and another
\* payload.
Modifies(p, r) ==
    \E i \in 1..Len(df[p]) :
        NaturalKey(df[p][i]) = NaturalKey(r) /\ df[p][i] # r

\* C2: Conflict-skip.  While a run's input holds a record with the key of a
\* stored row and a different payload, every step leaves the stored row as
\* it is; the INSERT, on reaching that record, adds no row for the key to
\* the transaction, and the run does not fail there except by losing its
\* connection.
C2_ConflictSkip ==
    [][\A p \in Runs : \A r \in base :
          Modifies(p, r) =>
              /\ r \in base'
              /\ \A w \in pending'[p] : NaturalKey(w) # NaturalKey(r)
              /\ (Scanning(p) /\ NaturalKey(CurrentRow(p)) = NaturalKey(r)
                    /\ pc'[p] = "failed") => err'[p] = "connection_merge"]_vars

\* C2 witness: a run completed whose input modified a row stored before it,
\* and the row is still stored.
C2_Witness ==
    \E p \in Runs : \E r \in prior :
        pc[p] = "done" /\ Modifies(p, r) /\ r \in base

\* The concatenated record sequence of run p (line 46).
Concatenation(p) == Concat(dir, file_list[p])

\* The natural keys of a record sequence.
KeysOf(c) == {RecordKey(c[i]) : i \in 1..Len(c)}

\* The positions of record sequence c that hold natural key k.
Positions(c, k) == {i \in 1..Len(c) : RecordKey(c[i]) = k}

Min(S) == CHOOSE x \in S : \A y \in S : x <= y
Max(S) == CHOOSE x \in S : \A y \in S : x >= y

\* The positions of DataFrame d whose row has the natural key of record r.
Survivors(d, r) ==
    {i \in 1..Len(d) : NaturalKey(d[i]) = NaturalKey(Finalize(table, r))}

\* Natural key k occurs more than once in record sequence c, with different
\* payloads.
Duplicated(c, k) == \E i, j \in Positions(c, k) : c[i].VAL # c[j].VAL

\* C3 as stated: of the records sharing a natural key exactly one survives
\* deduplication, and it is the last-seen one.
C3_LastSeenWins ==
    \A p \in Runs : HasFrame(p) =>
        LET c == Concatenation(p) IN
        \A k \in KeysOf(c) :
            LET last == c[Max(Positions(c, k))] IN
            /\ Cardinality(Survivors(df[p], last)) = 1
            /\ \A i \in Survivors(df[p], last) :
                  df[p][i] = Finalize(table, last)

\* C3 amended: of the records sharing a natural key exactly one survives
\* deduplication, and it is the first-seen one in concatenation order.
C3_FirstSeenWins ==
    \A p \in Runs : HasFrame(p) =>
        LET c == Concatenation(p) IN
        /\ \A k \in KeysOf(c) :
            LET first == c[Min(Positions(c, k))] IN
            /\ Cardinality(Survivors(df[p], first)) = 1
            /\ \A i \in Survivors(df[p], first) :
                  df[p][i] = Finalize(table, first)
        /\ Len(df[p]) = Cardinality(KeysOf(c))

\* C3 witness: a run's concatenation held one key twice with different
\* payloads, and its DataFrame holds the first of the two.
C3_Witness ==
    \E p \in Runs : HasFrame(p) /\
        LET c == Concatenation(p) IN
        \E k \in KeysOf(c) :
            /\ Duplicated(c, k)
            /\ \E i \in 1..Len(df[p]) :
                  df[p][i] = Finalize(table, c[Min(Positions(c, k))])

\* C4 as stated: the deduplicated record set does not depend on the order in
\* which the directory listing returns the file names: two runs over the
\* same directory hold the same set of rows.
C4_ListingOrderIrrelevant ==
    \A p, q \in Runs :
        (HasFrame(p) /\ HasFrame(q)) => Range(df[p]) = Range(df[q])

\* The staged rows of run p whose key the base table does not hold.
AbsentStaged(p) ==
    {r \in Range(tmp_table[p]) :
        \A b \in base : NaturalKey(b) # NaturalKey(r)}

\* C5: Atomic merge.  A step in which a run fails leaves the base table as
\* it is, and the only steps that change the base table are the COMMIT of a
\* run whose INSERT has scanned every staged row, which adds all the staged
\* rows with absent keys at once.
C5_AtomicMerge ==
    [][/\ \A p \in Runs :
            (pc[p] # "failed" /\ pc'[p] = "failed") => base' = base
       /\ base' # base =>
            \E p \in Runs :
                /\ pc[p] = "insert" /\ pc'[p] = "count2"
                /\ next_row[p] > Len(tmp_table[p])
                /\ base' = base \cup AbsentStaged(p)]_vars

\* C5 witness: a run failed inside its transaction after inserting rows, and
\* none of them is in the base table.
C5_Witness ==
    \E p \in Runs :
        /\ err[p] \in {"connection_merge", "deadlock"}
        /\ lost[p] # {}
        /\ lost[p] \cap base = {}

\* C6 as stated: the reported 'Rows added' is the number of rows the run's
\* own merge added, whatever other runs commit between its two counts.
C6_DeltaIsOwnRows ==
    \A p \in Runs : pc[p] = "done" => RowsAdded(p) = Cardinality(merged[p])

\* The natural keys of run p's DataFrame that the table did not hold when
\* the run counted its rows.
NewKeys(p) ==
    {NaturalKey(r) : r \in Range(df[p])} \ {NaturalKey(b) : b \in seen[p]}

\* C7: Delta accounting, single writer.  When no other run committed rows
\* between the run's two counts, the reported delta is the number of
\* distinct staged keys absent from the table before the call: never
\* negative, and 0 when every staged key was present.
C7_DeltaSingleWriter ==
    \A p \in Runs :
        (pc[p] = "done" /\ foreign[p] = {}) =>
            /\ RowsAdded(p) = Cardinality(NewKeys(p))
            /\ RowsAdded(p) >= 0
            /\ (NewKeys(p) = {} => RowsAdded(p) = 0)

\* C7 witness: a run alone between its counts found one of its two staged
\* keys stored and reported the other.
C7_Witness ==
    \E p \in Runs :
        /\ pc[p] = "done" /\ foreign[p] = {}
        /\ seen[p] # {}
        /\ Len(df[p]) = 2
        /\ RowsAdded(p) = 1

\* C8: Monotone row count.  No step, of a successful or of a failed run,
\* removes or changes a stored row or lowers the row count.
C8_Monotone ==
    [][/\ base \subseteq base'
       /\ Cardinality(base') >= Cardinality(base)]_vars

\* C8 witness: one run failed in its merge, the other added rows to a table
\* that was not empty.
C8_Witness ==
    \E p, q \in Runs :
        /\ err[p] \in {"connection_merge", "deadlock"}
        /\ pc[q] = "done" /\ merged[q] # {}
        /\ prior # {} /\ prior \subseteq base

\* The natural keys of the lines of the directory's .txt files.
DirKeys ==
    UNION {{RecordKey(r) : r \in Range(ingest_data_helper(dir, f))} :
              f \in {g \in DOMAIN dir : IsTxt(g)}}

\* The natural keys of the directory as the base table stores them.
StoredDirKeys ==
    UNION {{NaturalKey(Finalize(table, r)) :
                r \in Range(ingest_data_helper(dir, f))} :
              f \in {g \in DOMAIN dir : IsTxt(g)}}

\* C9: One row per natural key.  The base table never holds two rows with
\* one natural key; after a successful run on a table that was empty, it
\* holds as many rows as the input files have distinct natural keys, and
\* exactly one row for each of them.
C9_OneRowPerKey ==
    /\ \A r1, r2 \in base : NaturalKey(r1) = NaturalKey(r2) => r1 = r2
    /\ \A p \in Runs :
          (pc[p] = "done" /\ prior = {}) =>
              /\ Cardinality(base) = Cardinality(DirKeys)
              /\ \A k \in StoredDirKeys :
                    Cardinality({r \in base : NaturalKey(r) = k}) = 1

\* C9 witness: a run succeeded on an empty table with a file that holds one
\* key twice, with different payloads; the table holds the key once.
C9_Witness ==
    \E p \in Runs :
        /\ pc[p] = "done" /\ prior = {}
        /\ \E k \in DirKeys : Duplicated(Concatenation(p), k)
        /\ Cardinality(base) = 1

\* A run ended by a failure of its environment: no input file, or a lost
\* connection.
EnvironmentFailure(p) ==
    err[p] \in {"no_files", "connection_create", "connection_merge",
                "connection_count"}

\* C10 as stated: when both runs have ended and the environment failed
\* neither, both completed without error, and the base table holds exactly
\* one row for every natural key of the inputs and of the rows present
\* before, those rows unchanged.
C10_ConcurrentRunsSafe ==
    ((\A p \in Runs : pc[p] \in {"done", "failed"})
        /\ (\A p \in Runs : ~EnvironmentFailure(p))) =>
            /\ \A p \in Runs : pc[p] = "done"
            /\ prior \subseteq base
            /\ {NaturalKey(r) : r \in base} =
                  StoredDirKeys \cup {NaturalKey(r) : r \in prior}
            /\ \A r1, r2 \in base : NaturalKey(r1) = NaturalKey(r2) => r1 = r2

\* ---------------------------------------------------------- summary claims

\* The stored summary rows of the group an aggregation first wrote.
StoredFor(e) == {a \in avg_table : AvgPK(a) = e.key}

\* The rows of a group whose value for a column is not the sentinel.
Kept(e, col) == e.rows \ {r \in e.rows : r[col] = SENTINEL}

\* The mean of a column over rows, in units of ten, as an int4 holds it.
MeanTenth(rows, col) ==
    Some(RoundDiv(SumOf(rows, col), Cardinality(rows) * TempDivisor))

\* C11: a row whose value for one field is -9999 is left out of the
\* reduction of that field only; each field of a summary row is reduced over
\* exactly the rows of its group whose value for that field is not -9999.
C11_PerFieldExclusion ==
    \A e \in src : \A a \in StoredFor(e) :
        /\ Kept(e, "MAX_TEMP") # {} =>
              a.AVG_MAX_TEMP = MeanTenth(Kept(e, "MAX_TEMP"), "MAX_TEMP")
        /\ Kept(e, "MIN_TEMP") # {} =>
              a.AVG_MIN_TEMP = MeanTenth(Kept(e, "MIN_TEMP"), "MIN_TEMP")
        /\ Kept(e, "PRCP") # {} =>
              a.TOTAL_PRECIPITATION =
                  Some(TruncDiv(SumOf(Kept(e, "PRCP"), "PRCP"), PrcpDivisor))

\* A group of three readings, one of them without a maximum temperature, has
\* been summarised: the maximum is averaged over two rows, (30 - 15) / 2 / 10,
\* the minimum over three, (10 + 20 + 40) / 3 / 10, and the precipitation is
\* summed over three, (150 + 150 + 50) / 100.
C11_Witness ==
    \E e \in src :
        /\ Cardinality(e.rows) = 3
        /\ Cardinality(Kept(e, "MAX_TEMP")) = 2
        /\ Cardinality(Kept(e, "MIN_TEMP")) = 3
        /\ Cardinality(Kept(e, "PRCP")) = 3
        /\ SumOf(Kept(e, "MAX_TEMP"), "MAX_TEMP") = 15
        /\ SumOf(e.rows, "MIN_TEMP") = 70
        /\ SumOf(e.rows, "PRCP") = 350
        /\ \E a \in StoredFor(e) :
              /\ a.AVG_MAX_TEMP = Some(1)
              /\ a.AVG_MIN_TEMP = Some(2)
              /\ a.TOTAL_PRECIPITATION = Some(3)

\* C12: a group all of whose rows hold -9999 for a field still gets its
\* summary row, and that row holds NULL for the field.
C12_AllSentinelIsNull ==
    /\ \A e \in src : StoredFor(e) # {}
    /\ fresh => \A g \in Groups(base) : \E a \in avg_table : AvgPK(a) = g
    /\ \A e \in src : \A a \in StoredFor(e) :
          /\ (\A r \in e.rows : r.MAX_TEMP = SENTINEL) =>
                a.AVG_MAX_TEMP = Null
          /\ (\A r \in e.rows : r.MIN_TEMP = SENTINEL) =>
                a.AVG_MIN_TEMP = Null
          /\ (\A r \in e.rows : r.PRCP = SENTINEL) =>
                a.TOTAL_PRECIPITATION = Null

\* A group whose rows all lack the maximum temperature, but not the minimum,
\* has been summarised.
C12_Witness ==
    \E e \in src :
        /\ \A r \in e.rows : r.MAX_TEMP = SENTINEL
        /\ \E r \in e.rows : r.MIN_TEMP # SENTINEL
        /\ \E a \in StoredFor(e) :
              a.AVG_MAX_TEMP = Null /\ a.AVG_MIN_TEMP # Null

\* Every stored summary row is the aggregate of the rows its group had when
\* the row was written.
AggregateOfFirst ==
    \A a \in avg_table :
        \E e \in src : e.key = AvgPK(a) /\ a = SummaryRow(e.rows, e.key)

\* No step removes or alters a stored summary row.
SummariesKept == \A a \in avg_table : a \in avg_table'

\* C13: a stored summary row is never changed by later ingestion and
\* generate_avg_table runs, and equals the aggregate over the rows its group
\* had at the aggregation that created it.
C13_ComputeOnce == [](AggregateOfFirst) /\ [][SummariesKept]_vars

\* A group has gained a row since its summary was written, the summaries have
\* been generated again, and the stored row is not the aggregate of the
\* group's present rows.
C13_Witness ==
    /\ fresh
    /\ \E e \in src :
          /\ GroupRows(base, e.key) # e.rows
          /\ \E a \in StoredFor(e) : a # SummaryRow(base, e.key)

\* C14: the stored averages are the mean of the non-sentinel temperatures
\* divided by 10 and the stored total is the sum of the non-sentinel
\* precipitations divided by 100.
C14_Scaling ==
    \A e \in src : \A a \in StoredFor(e) :
        /\ Kept(e, "MAX_TEMP") # {} =>
              /\ a.AVG_MAX_TEMP # Null
              /\ a.AVG_MAX_TEMP[1] * TempDivisor
                    * Cardinality(Kept(e, "MAX_TEMP"))
                 = SumOf(Kept(e, "MAX_TEMP"), "MAX_TEMP")
        /\ Kept(e, "MIN_TEMP") # {} =>
              /\ a.AVG_MIN_TEMP # Null
              /\ a.AVG_MIN_TEMP[1] * TempDivisor
                    * Cardinality(Kept(e, "MIN_TEMP"))
                 = SumOf(Kept(e, "MIN_TEMP"), "MIN_TEMP")
        /\ Kept(e, "PRCP") # {} =>
              /\ a.TOTAL_PRECIPITATION # Null
              /\ a.TOTAL_PRECIPITATION[1] * PrcpDivisor
                 = SumOf(Kept(e, "PRCP"), "PRCP")

\* C18: after generate_avg_table the summary table holds exactly one row for
\* every (station, year) with a base row, and it never holds a row for a
\* pair without one.
C18_Completeness ==
    /\ \A a, b \in avg_table : AvgPK(a) = AvgPK(b) => a = b
    /\ {AvgPK(a) : a \in avg_table} \subseteq Groups(base)
    /\ fresh => {AvgPK(a) : a \in avg_table} = Groups(base)

\* Summaries were generated, further readings arrived, one of them of a
\* group already summarised, and the summaries were generated again.
C18_Witness ==
    /\ fresh
    /\ Cardinality(Groups(base)) >= 2
    /\ Cardinality(avg_table) = Cardinality(Groups(base))
    /\ \E e \in src : GroupRows(base, e.key) # e.rows

\* ------------------------------------------------------------ read claims

\* The positions of where_lst whose value is not None.
GivenAt == {i \in 1..Len(where_lst) : where_lst[i][2] # None}

\* The text of one exact-match equality after a keyword.
Equality(word, pred) == <<word, pred[1], " = '", pred[2][1], "'">>

\* C17: the clause is built from the predicates whose value is not None, in
\* list order: empty for none, one equality for one, the conjunction of the
\* first two for two or more; a None value never yields a condition.
C17_WhereClause ==
    /\ GivenAt = {} => where_clause = <<>>
    /\ Cardinality(GivenAt) = 1 =>
          where_clause = Equality(" WHERE ", where_lst[Min(GivenAt)])
    /\ Cardinality(GivenAt) >= 2 =>
          LET i == Min(GivenAt)
              j == Min(GivenAt \ {i})
          IN where_clause = Equality(" WHERE ", where_lst[i])
                               \o Equality(" AND ", where_lst[j])
    /\ \A k \in 1..Len(where_clause) : where_clause[k] # "None"

\* A list whose first predicate has no value and whose other three have one:
\* the clause holds the second and third, and the fourth is ignored.
C17_Witness ==
    /\ Len(where_lst) = 4
    /\ where_lst[1][2] = None
    /\ Cardinality(GivenAt) = 3
    /\ where_lst[2] # where_lst[3]
    /\ where_clause = Equality(" WHERE ", where_lst[2])
                         \o Equality(" AND ", where_lst[3])

\* The row satisfies every predicate of where_lst that has a value.
Matches(r) == \A i \in GivenAt : r[where_lst[i][1]] = where_lst[i][2][1]

\* The offset and limit in force for the last read.
OffsetAsked == IF request.offset = None THEN 0 ELSE request.offset[1]
LimitAsked ==
    IF request.limit = None THEN DefaultLimit ELSE request.limit[1]

\* C15: a read returns the number of all rows matching the filter, whatever
\* the offset and limit, and a page of min(limit, max(0, count - offset))
\* matching rows; a read that names no offset starts at offset 0.
C15_PaginationConsistency ==
    request.served =>
        /\ payload.count = Cardinality({r \in base : Matches(r)})
        /\ Len(payload.results)
              = Min({LimitAsked, Max({0, payload.count - OffsetAsked})})
        /\ \A i \in 1..Len(payload.results) :
              payload.results[i] \in base /\ Matches(payload.results[i])
        /\ request.offset = None => payload.offset = 0

\* A filtered read of a table with a row the filter rejects: two rows match,
\* and the page at offset 1 with limit 2 holds the one row left.
C15_Witness ==
    /\ request.served
    /\ GivenAt # {}
    /\ Cardinality(base) = 3
    /\ payload.count = 2
    /\ request.offset = <<1>>
    /\ request.limit = <<2>>
    /\ Len(payload.results) = 1

\* ------------------------------------------------------- parse and dispatch

\* A .txt file of the directory has a line with fewer fields than columns.
ShortLine ==
    \E f \in DOMAIN dir :
        IsTxt(f) /\ \E i \in 1..Len(dir[f]) : dir[f][i].VAL = NaN

\* C16: when a line of an input file cannot be split into the declared
\* columns, the run fails with a parse error before create_table and
\* upload_to_db run, and the base table is unchanged.
C16_ParseFailureAborts ==
    \A p \in Runs :
        ShortLine /\ pc[p] # "idle" =>
            /\ pc[p] = "failed"
            /\ err[p] = "parse_error"
            /\ base = prior

\* C19: a run is a weather run exactly when the table is 'wx_data'. Its
\* DataFrame then keeps the file stem as STATION_ID, and every (file, date)
\* of the concatenation has its row; otherwise the DataFrame has no file
\* column and holds exactly one row for every year of the concatenation.
C19_DomainDispatch ==
    \A p \in Runs : HasFrame(p) =>
        LET c == Concatenation(p) IN
        IF table = "wx_data"
        THEN /\ \A j \in 1..Len(df[p]) :
                    DOMAIN df[p][j] = {"STATION_ID", "DATE", "VAL"}
             /\ \A i \in 1..Len(c) :
                    \E j \in 1..Len(df[p]) :
                        /\ df[p][j].STATION_ID = c[i].FILE
                        /\ df[p][j].DATE = ToDate(c[i].KEY)
        ELSE /\ \A j \in 1..Len(df[p]) : DOMAIN df[p][j] = {"YEAR", "VAL"}
             /\ \A i \in 1..Len(c) :
                    Cardinality({j \in 1..Len(df[p]) :
                                    df[p][j].YEAR = c[i].KEY}) = 1

\* A yield run read the same year from two files and its DataFrame holds one
\* row.
C19_Witness ==
    \E p \in Runs :
        /\ HasFrame(p)
        /\ table = "yld_data"
        /\ Len(df[p]) = 1
        /\ \E i, j \in 1..Len(Concatenation(p)) :
              /\ Concatenation(p)[i].FILE # Concatenation(p)[j].FILE
              /\ Concatenation(p)[i].KEY = Concatenation(p)[j].KEY

====
